---- MODULE Spec2Model ----
(***************************************************************************)
(* Model of build.js: the generator (main) that scans the working          *)
(* directory and writes index.html, and the client script embedded in the  *)
(* generated document (applyFilters, render, showInViewer, the handlers).  *)
(*                                                                         *)
(* JavaScript strings are TLA+ strings; a character is a string of length  *)
(* one, obtained with SubSeq.                                              *)
(***************************************************************************)
EXTENDS Integers, Sequences, FiniteSets, TLC

VARIABLES
    \* ---- generator (main, build.js:57-391) ----
    dir,        \* the entries of process.cwd() as readdir would return them
    pc,         \* position of main: "readdir", "loop", "exited"
    listed,     \* whether await fsp.readdir has delivered its result (build.js:59)
    entries,    \* const entries (build.js:59)
    idx,        \* position of the for..of loop over entries (build.js:62)
    files,      \* const files = [] (build.js:61)
    vanished,   \* names whose fsp.stat call was rejected (build.js:68)
    indexHtml,  \* content of the output file index.html
    writes,     \* number of fsp.writeFile calls issued (build.js:384)
    stdout,     \* the count printed by console.log, or NoValue (build.js:385)
    stderr,     \* the error printed by console.error, or NoValue (build.js:389)
    exitCode,   \* the exit code of the process, NoValue while it runs
    \* ---- client script (build.js:219-380) ----
    FILES,      \* const FILES (build.js:221)
    q,          \* q.value
    kind,       \* kind.value
    sort,       \* sort.value
    grid,       \* the cards appended to #grid, in order
    emptyHidden,\* empty.hidden
    viewer,     \* the child nodes of #viewer, in order
    selected,   \* <<f>> for the record f last passed to showInViewer, <<>> before
    fetches     \* the fetch() promises not yet settled

genVars == <<dir, pc, listed, entries, idx, files, vanished, indexHtml, writes, stdout, stderr, exitCode>>
clientVars == <<FILES, q, kind, sort, grid, emptyHidden, viewer, selected, fetches>>
vars == <<genVars, clientVars>>

NoValue == "<none>"

(***************************************************************************)
(* Bounds.                                                                 *)
(***************************************************************************)
MaxEntries == 3     \* entries in the scanned directory (generator)
MaxRecords == 3     \* entries in the directory the loaded document was built from
MaxFetches == 1     \* text fetches in flight at once
MaxPreviewRecords == 2  \* entries in the directory of the document whose pane is exercised

(***************************************************************************)
(* String helpers (String.prototype methods used by the code).             *)
(***************************************************************************)
CharAt(s, i) == SubSeq(s, i, i)

startsWith(s, p) == Len(s) >= Len(p) /\ SubSeq(s, 1, Len(p)) = p

\* s.includes(t)
includes(s, t) ==
    \E i \in 1..(Len(s) + 1) : i + Len(t) - 1 <= Len(s) /\ SubSeq(s, i, i + Len(t) - 1) = t

UpperChars == "ABCDEFGHIJKLMNOPQRSTUVWXYZ"
LowerChars == "abcdefghijklmnopqrstuvwxyz"

\* the lower-case form of each upper-case letter
LowerOf ==
    [c \in {CharAt(UpperChars, i) : i \in 1..Len(UpperChars)} |->
        CharAt(LowerChars, CHOOSE i \in 1..Len(UpperChars) : CharAt(UpperChars, i) = c)]

LowerChar(c) == IF c \in DOMAIN LowerOf THEN LowerOf[c] ELSE c

RECURSIVE toLowerCase(_)
toLowerCase(s) ==
    IF s = "" THEN "" ELSE LowerChar(CharAt(s, 1)) \o toLowerCase(SubSeq(s, 2, Len(s)))

WhiteSpace == {" ", "\t", "\n", "\r"}

RECURSIVE trimStart(_)
trimStart(s) ==
    IF s # "" /\ CharAt(s, 1) \in WhiteSpace THEN trimStart(SubSeq(s, 2, Len(s))) ELSE s

RECURSIVE trimEnd(_)
trimEnd(s) ==
    IF s # "" /\ CharAt(s, Len(s)) \in WhiteSpace THEN trimEnd(SubSeq(s, 1, Len(s) - 1)) ELSE s

trim(s) == trimEnd(trimStart(s))

\* s.replace(".", ""): only the first occurrence is removed
replaceFirstDot(s) ==
    IF \E i \in 1..Len(s) : CharAt(s, i) = "."
    THEN LET i == CHOOSE j \in 1..Len(s) :
                      CharAt(s, j) = "." /\ \A k \in 1..(j - 1) : CharAt(s, k) # "."
         IN  SubSeq(s, 1, i - 1) \o SubSeq(s, i + 1, Len(s))
    ELSE s

\* path.extname on a base name: from the last "." to the end; "" when there is
\* no "." or the only "." is the first character, or the name is "..".
extname(name) ==
    LET dots == {i \in 1..Len(name) : CharAt(name, i) = "."}
    IN  IF dots = {} THEN ""
        ELSE LET last == CHOOSE i \in dots : \A j \in dots : j <= i
             IN  IF last = 1 \/ name = ".." THEN "" ELSE SubSeq(name, last, Len(name))

asExt(name) == replaceFirstDot(toLowerCase(extname(name)))

EscapeChar(ch) ==
    CASE ch = "&" -> "&amp;"
      [] ch = "<" -> "&lt;"
      [] ch = ">" -> "&gt;"
      [] ch = "\"" -> "&quot;"
      [] ch = "'" -> "&#39;"
      [] OTHER -> ch

RECURSIVE escapeHtml(_)
escapeHtml(s) ==
    IF s = "" THEN "" ELSE EscapeChar(CharAt(s, 1)) \o escapeHtml(SubSeq(s, 2, Len(s)))

(***************************************************************************)
(* The tables of the generator.                                            *)
(***************************************************************************)
IGNORE == {"build.js", "serve.js", "index.html", ".DS_Store", "Thumbs.db"}

PreviewKeys ==
    {"pdf", "png", "jpg", "jpeg", "webp", "gif", "svg", "mp4", "webm",
     "mp3", "wav", "ogg", "html", "htm", "txt", "md"}

\* the own properties of the object literal PREVIEW
PREVIEW ==
    [ext \in PreviewKeys |->
        CASE ext = "pdf" -> "pdf"
          [] ext \in {"png", "jpg", "jpeg", "webp", "gif", "svg"} -> "image"
          [] ext \in {"mp4", "webm"} -> "video"
          [] ext \in {"mp3", "wav", "ogg"} -> "audio"
          [] ext \in {"html", "htm"} -> "html"
          [] ext \in {"txt", "md"} -> "text"]

\* PREVIEW is an ordinary object: PREVIEW[ext] also finds the properties it
\* inherits from Object.prototype.  Of those, the names that a lower-cased
\* extension can spell are "constructor" (the function Object) and "__proto__"
\* (the object Object.prototype).  Absent properties read as undefined.
JsFunction == "<function>"
JsObject == "<object>"
JsUndefined == "<undefined>"

PreviewGet(ext) ==
    IF ext \in PreviewKeys THEN PREVIEW[ext]
    ELSE IF ext = "constructor" THEN JsFunction
    ELSE IF ext = "__proto__" THEN JsObject
    ELSE JsUndefined

Truthy(v) == v \notin {JsUndefined, ""}

\* PREVIEW[ext] || "link"
previewOf(ext) == IF Truthy(PreviewGet(ext)) THEN PreviewGet(ext) ELSE "link"

\* the object literal pushed onto files (build.js:70-76)
FileRecord(e) ==
    [name |-> e.name, ext |-> asExt(e.name), size |-> e.size,
     mtimeMs |-> e.mtimeMs, preview |-> previewOf(asExt(e.name))]

\* the loop without its test for a leading dot
SkippedKeepsHidden(e) == ~e.isFile \/ e.name \in IGNORE

\* the three "continue" guards of the loop
Skipped(e) == ~e.isFile \/ e.name \in IGNORE \/ startsWith(e.name, ".")

(***************************************************************************)
(* Sorting: Array.prototype.sort is stable; the comparators are those of   *)
(* build.js:80 and build.js:266-276.                                       *)
(***************************************************************************)
\* String.prototype.localeCompare(other, 'pt-BR'): the collation compares the
\* letters without their case first (symbols before digits before letters, a
\* proper prefix first) and breaks a tie by case, lower case first.
CollationChars == " _-.'\"&<>0123456789abcdefghijklmnopqrstuvwxyz"

WeightOf ==
    [c \in {CharAt(CollationChars, i) : i \in 1..Len(CollationChars)} |->
        CHOOSE i \in 1..Len(CollationChars) : CharAt(CollationChars, i) = c]

PrimaryWeight(c) == IF LowerChar(c) \in DOMAIN WeightOf THEN WeightOf[LowerChar(c)] ELSE 0

IsUpper(c) == c \in DOMAIN LowerOf

RECURSIVE ComparePrimary(_, _)
ComparePrimary(a, b) ==
    IF a = "" /\ b = "" THEN 0
    ELSE IF a = "" THEN -1
    ELSE IF b = "" THEN 1
    ELSE IF PrimaryWeight(CharAt(a, 1)) < PrimaryWeight(CharAt(b, 1)) THEN -1
    ELSE IF PrimaryWeight(CharAt(a, 1)) > PrimaryWeight(CharAt(b, 1)) THEN 1
    ELSE ComparePrimary(SubSeq(a, 2, Len(a)), SubSeq(b, 2, Len(b)))

\* called only on strings that are equal at the primary level (same length)
RECURSIVE CompareCase(_, _)
CompareCase(a, b) ==
    IF a = "" \/ b = "" THEN 0
    ELSE IF ~IsUpper(CharAt(a, 1)) /\ IsUpper(CharAt(b, 1)) THEN -1
    ELSE IF IsUpper(CharAt(a, 1)) /\ ~IsUpper(CharAt(b, 1)) THEN 1
    ELSE CompareCase(SubSeq(a, 2, Len(a)), SubSeq(b, 2, Len(b)))

localeCompare(a, b) ==
    IF ComparePrimary(a, b) # 0 THEN ComparePrimary(a, b) ELSE CompareCase(a, b)

\* the comparator of files.sort in main (build.js:80)
BuildCompare(a, b) == b.mtimeMs - a.mtimeMs

\* the comparator with the two size cases alike
SorterCompareSizeAlike(sorter, a, b) ==
    CASE sorter = "mtime-asc" -> a.mtimeMs - b.mtimeMs
      [] sorter = "mtime-desc" -> b.mtimeMs - a.mtimeMs
      [] sorter = "name-asc" -> localeCompare(a.name, b.name)
      [] sorter = "name-desc" -> localeCompare(b.name, a.name)
      [] sorter = "size-asc" -> a.size - b.size
      [] sorter = "size-desc" -> a.size - b.size
      [] OTHER -> 0

\* the comparator of items.sort in applyFilters (build.js:266-276)
SorterCompare(sorter, a, b) ==
    CASE sorter = "mtime-asc" -> a.mtimeMs - b.mtimeMs
      [] sorter = "mtime-desc" -> b.mtimeMs - a.mtimeMs
      [] sorter = "name-asc" -> localeCompare(a.name, b.name)
      [] sorter = "name-desc" -> localeCompare(b.name, a.name)
      [] sorter = "size-asc" -> a.size - b.size
      [] sorter = "size-desc" -> b.size - a.size
      [] OTHER -> 0

BuildOrder == "<build>"

Compare(ord, a, b) == IF ord = BuildOrder THEN BuildCompare(a, b) ELSE SorterCompare(ord, a, b)

\* x goes after the last element that does not compare greater than it
RECURSIVE InsertSorted(_, _, _)
InsertSorted(ord, s, x) ==
    IF s = <<>> THEN <<x>>
    ELSE IF Compare(ord, s[Len(s)], x) > 0
         THEN Append(InsertSorted(ord, SubSeq(s, 1, Len(s) - 1), x), s[Len(s)])
         ELSE Append(s, x)

RECURSIVE sortArray(_, _)
sortArray(ord, s) ==
    IF s = <<>> THEN <<>>
    ELSE InsertSorted(ord, sortArray(ord, SubSeq(s, 1, Len(s) - 1)), s[Len(s)])

(***************************************************************************)
(* The embedded dataset: JSON.stringify(files) is interpolated into the    *)
(* script as the initialiser of FILES.  Strings and numbers come back as   *)
(* they were; a property whose value is a function is left out by          *)
(* JSON.stringify and reads as undefined; an object without own enumerable *)
(* properties is written as {}.                                            *)
(***************************************************************************)
EmbedValue(v) == IF v = JsFunction THEN JsUndefined ELSE v

EmbedRecord(f) == [f EXCEPT !.preview = EmbedValue(f.preview)]

dataJson(fs) == [i \in 1..Len(fs) |-> EmbedRecord(fs[i])]

(***************************************************************************)
(* The scanned directory.                                                  *)
(***************************************************************************)
Entry(n, isF, sz, mt) == [name |-> n, isFile |-> isF, size |-> sz, mtimeMs |-> mt]

GenUniverse ==
    { Entry("report.pdf", TRUE, 2048, 5),
      Entry("photo.PNG", TRUE, 500000, 4),
      Entry(".hidden", TRUE, 7, 6),
      Entry("index.html", TRUE, 9000, 9),
      Entry("Thumbs.db", TRUE, 12, 1),
      Entry("build.js", TRUE, 12489, 2),
      Entry("docs", FALSE, 4096, 4),
      Entry("notes.txt", FALSE, 0, 3),
      Entry("README", TRUE, 7, 4),
      Entry("x.constructor", TRUE, 1, 8),
      Entry("a.tar.GZ", TRUE, 2048, 5) }

\* the sequences of at most n distinct entries of U
RECURSIVE Listings(_, _)
Listings(U, n) ==
    IF n = 0 THEN {<<>>}
    ELSE Listings(U, n - 1) \cup
         { Append(s, e) : s \in {t \in Listings(U, n - 1) : Len(t) = n - 1},
                          e \in U }

DistinctNames(s) == \A i, j \in 1..Len(s) : i # j => s[i].name # s[j].name

\* index.html: what was there before the run, the document with its embedded
\* dataset, or the remains of a write that failed part way
PriorContent == [status |-> "prior", data |-> <<>>]
PartialContent == [status |-> "partial", data |-> <<>>]
Document(data) == [status |-> "written", data |-> data]

InitClientIdle ==
    /\ FILES = <<>> /\ q = "" /\ kind = "" /\ sort = "mtime-desc"
    /\ grid = <<>> /\ emptyHidden = TRUE /\ viewer = <<>>
    /\ selected = <<>> /\ fetches = {}

InitGen ==
    /\ dir \in {s \in Listings(GenUniverse, MaxEntries) : DistinctNames(s)}
    /\ pc = "readdir"
    /\ listed = FALSE
    /\ entries = <<>>
    /\ idx = 1
    /\ files = <<>>
    /\ vanished = {}
    /\ indexHtml = PriorContent
    /\ writes = 0
    /\ stdout = NoValue
    /\ stderr = NoValue
    /\ exitCode = NoValue
    /\ InitClientIdle

\* main().catch: console.error(err); process.exit(1)
Catch(err) ==
    /\ stderr' = err
    /\ exitCode' = 1
    /\ pc' = "exited"

\* a listing failure that is logged and taken for an empty directory
ReaddirLenient ==
    /\ pc = "readdir"
    /\ \E ok \in BOOLEAN :
        /\ entries' = IF ok THEN dir ELSE <<>>
        /\ listed' = ok
        /\ stderr' = IF ok THEN stderr ELSE "readdir"
        /\ pc' = "loop"
    /\ UNCHANGED <<dir, idx, files, vanished, indexHtml, writes, stdout, exitCode, clientVars>>

\* const entries = await fsp.readdir(dir, { withFileTypes: true })
Readdir ==
    /\ pc = "readdir"
    /\ \E ok \in BOOLEAN :
        IF ok
        THEN /\ entries' = dir
             /\ listed' = TRUE
             /\ pc' = "loop"
             /\ UNCHANGED <<stderr, exitCode>>
        ELSE /\ Catch("readdir")
             /\ UNCHANGED <<entries, listed>>
    /\ UNCHANGED <<dir, idx, files, vanished, indexHtml, writes, stdout, clientVars>>

\* one iteration of for (const e of entries)
ScanEntry ==
    /\ pc = "loop"
    /\ idx <= Len(entries)
    /\ LET e == entries[idx] IN
        IF Skipped(e)
        THEN /\ idx' = idx + 1
             /\ UNCHANGED <<pc, files, vanished, stderr, exitCode>>
        ELSE \E statOk \in BOOLEAN :
                IF statOk
                THEN /\ files' = Append(files, FileRecord(e))
                     /\ idx' = idx + 1
                     /\ UNCHANGED <<pc, vanished, stderr, exitCode>>
                ELSE /\ vanished' = vanished \cup {e.name}
                     /\ Catch("stat")
                     /\ UNCHANGED <<idx, files>>
    /\ UNCHANGED <<dir, listed, entries, indexHtml, writes, stdout, clientVars>>

\* files.sort, JSON.stringify, the template, await fsp.writeFile, console.log
EmitDocument ==
    /\ pc = "loop"
    /\ idx > Len(entries)
    /\ files' = sortArray(BuildOrder, files)
    /\ writes' = writes + 1
    /\ \E outcome \in {"written", "refused", "partial"} :
        CASE outcome = "written" ->
                /\ indexHtml' = Document(dataJson(files'))
                /\ stdout' = Len(files')
                /\ exitCode' = 0
                /\ pc' = "exited"
                /\ UNCHANGED stderr
          [] outcome = "refused" ->
                /\ Catch("writeFile")
                /\ UNCHANGED <<indexHtml, stdout>>
          [] outcome = "partial" ->
                /\ indexHtml' = PartialContent
                /\ Catch("writeFile")
                /\ UNCHANGED stdout
    /\ UNCHANGED <<dir, listed, entries, idx, vanished, clientVars>>

NextGen == Readdir \/ ScanEntry \/ EmitDocument

SpecGen == InitGen /\ [][NextGen]_vars

(***************************************************************************)
(* The client script.  The literals of the script that are not ASCII are   *)
(* written without their accents, and the icons by their names.            *)
(***************************************************************************)
Kinds == {"pdf", "image", "video", "audio", "html", "text", "link"}

\* the option values of <select id="kind"> and <select id="sort">
KindOptions == {""} \cup Kinds
SortOptions == {"mtime-desc", "mtime-asc", "name-asc", "name-desc", "size-desc", "size-asc"}

\* what the user types into <input id="q">
Queries == {"", "b", " TXT ", " ", "a.", "<"}

Units == <<"B", "KB", "MB", "GB", "TB">>

RECURSIVE Pow1024(_)
Pow1024(i) == IF i = 0 THEN 1 ELSE 1024 * Pow1024(i - 1)

\* the number of times the while loop of humanSize divides by 1024
RECURSIVE UnitIndex(_, _)
UnitIndex(bytes, i) ==
    IF bytes >= 1024 * Pow1024(i) /\ i < Len(Units) - 1 THEN UnitIndex(bytes, i + 1) ELSE i

\* (Math.round(n*10)/10) + ' ' + units[i]
humanSize(bytes) ==
    LET i == UnitIndex(bytes, 0)
        tenths == (2 * 10 * bytes + Pow1024(i)) \div (2 * Pow1024(i))
    IN  ToString(tenths \div 10)
            \o (IF tenths % 10 = 0 THEN "" ELSE "." \o ToString(tenths % 10))
            \o " " \o Units[i + 1]

\* new Date(ms).toLocaleString('pt-BR'): a text made of digits and separators
fmtDate(ms) == "date:" \o ToString(ms)

iconFor(k, ext) ==
    IF k \in Kinds THEN "icon-" \o k ELSE "icon-package"

Bullet == " * "

\* the template literal assigned to meta.innerHTML (build.js:299)
MetaMarkup(f) ==
    "<span class=\"chip\">" \o (IF f.ext # "" THEN f.ext ELSE "sem extensao") \o "</span>"
        \o Bullet \o humanSize(f.size) \o Bullet \o fmtDate(f.mtimeMs)

\* one <article class="card"> built by render (build.js:289-323)
Card(f) ==
    [ title |-> iconFor(f.preview, f.ext) \o " " \o f.name,   \* h3.textContent
      metaHTML |-> MetaMarkup(f),                             \* meta.innerHTML
      href |-> f.name,                                        \* btnView.href
      label |-> IF f.preview = "link" THEN "Abrir" ELSE "Visualizar",
      file |-> f ]                                            \* closure of btnEmbed

\* the cards of #grid after render(list)
RenderGrid(list) == [i \in 1..Len(list) |-> Card(list[i])]

\* the text filter without the lower-casing of the record's fields
QueryPassCaseSensitive(term, f) == includes(f.name, term) \/ includes(f.ext, term)

QueryPass(term, f) ==
    includes(toLowerCase(f.name), term) \/ includes(toLowerCase(f.ext), term)

KindPass(k, f) == IF k = "image" THEN f.preview = "image" ELSE f.preview = k

\* the list applyFilters hands to render (build.js:251-276)
FilteredSorted(all, qv, kv, sv) ==
    LET term == trim(toLowerCase(qv))
        afterTerm == IF term # "" THEN SelectSeq(all, LAMBDA f : QueryPass(term, f)) ELSE all
        afterKind == IF kv # "" THEN SelectSeq(afterTerm, LAMBDA f : KindPass(kv, f)) ELSE afterTerm
    IN  sortArray(sv, afterKind)

\* applyFilters() with the controls at qv, kv, sv: render replaces the grid
applyFilters(qv, kv, sv) ==
    LET list == FilteredSorted(FILES, qv, kv, sv) IN
    /\ grid' = RenderGrid(list)
    /\ emptyHidden' = (Len(list) # 0)

\* ---- the preview pane ----
Placeholder == [tag |-> "markup", html |-> "<div class=\"empty\">Selecione um arquivo para visualizar aqui.</div>"]

Unavailable == [tag |-> "markup", html |-> "<div class=\"empty\">Nao foi possivel pre-visualizar este arquivo.</div>"]

\* the template literal of the else branch of showInViewer (build.js:369)
UnsupportedMarkup(f) ==
    "<div class=\"empty\">Tipo nao suportado para previa. <a class=\"btn\" href=\""
        \o f.name \o "\" target=\"_blank\" rel=\"noopener\">Abrir em nova aba</a></div>"

\* the child of #viewer that showInViewer creates at once, by kind
ViewerNode(f) ==
    CASE f.preview = "pdf" -> [tag |-> "iframe", src |-> f.name \o "#toolbar=1"]
      [] f.preview = "image" -> [tag |-> "img", src |-> f.name]
      [] f.preview = "video" -> [tag |-> "video", src |-> f.name]
      [] f.preview = "audio" -> [tag |-> "audio", src |-> f.name]
      [] f.preview = "html" -> [tag |-> "iframe", src |-> f.name]
      [] OTHER -> [tag |-> "markup", html |-> UnsupportedMarkup(f)]

\* what r.text() yields for the response to fetch(name)
FileText(name) == "content of " \o name
ErrorPage(name) == "404 Not Found: " \o name

PreNode(txt) == [tag |-> "pre", text |-> txt]

FreeFetchIds == (1..MaxFetches) \ {p.id : p \in fetches}

\* btnEmbed click: showInViewer(f) for the record of a card in the grid
showInViewer(f) ==
    /\ selected' = <<f>>
    /\ IF f.preview = "text"
       THEN /\ FreeFetchIds # {}
            /\ viewer' = <<>>
            /\ fetches' = fetches \cup {[id |-> CHOOSE n \in FreeFetchIds : TRUE, name |-> f.name]}
       ELSE /\ viewer' = <<ViewerNode(f)>>
            /\ UNCHANGED fetches

ClickEmbed ==
    /\ \E i \in 1..Len(grid) : showInViewer(grid[i].file)
    /\ UNCHANGED <<genVars, FILES, q, kind, sort, grid, emptyHidden>>

\* the .then(r => r.text()).then(txt => ...) chain runs to its end
FetchFulfilled(p, txt) ==
    /\ viewer' = Append(viewer, PreNode(txt))
    /\ fetches' = fetches \ {p}

\* the .catch handler runs
FetchRejected(p) ==
    /\ viewer' = <<Unavailable>>
    /\ fetches' = fetches \ {p}

FetchOutcomes == {"ok", "http-404", "network-error", "body-error"}

\* the promise of fetch(f.name) settles: a response of any status fulfils it
FetchSettle(p, outcome) ==
    /\ p \in fetches
    /\ CASE outcome = "ok" -> FetchFulfilled(p, FileText(p.name))
         [] outcome = "http-404" -> FetchFulfilled(p, ErrorPage(p.name))
         [] outcome = "network-error" -> FetchRejected(p)
         [] outcome = "body-error" -> FetchRejected(p)
    /\ UNCHANGED <<genVars, FILES, q, kind, sort, grid, emptyHidden, selected>>

FetchDone == \E p \in fetches : \E outcome \in FetchOutcomes : FetchSettle(p, outcome)

\* q 'input' event
InputQuery ==
    /\ \E v \in Queries : q' = v /\ applyFilters(v, kind, sort)
    /\ UNCHANGED <<genVars, FILES, kind, sort, viewer, selected, fetches>>

\* kind 'change' event
ChangeKind ==
    /\ \E v \in KindOptions : kind' = v /\ applyFilters(q, v, sort)
    /\ UNCHANGED <<genVars, FILES, q, sort, viewer, selected, fetches>>

\* sort 'change' event
ChangeSort ==
    /\ \E v \in SortOptions : sort' = v /\ applyFilters(q, kind, v)
    /\ UNCHANGED <<genVars, FILES, q, kind, viewer, selected, fetches>>

\* the handler without sort.value = 'mtime-desc'
ClickClearKeepsSort ==
    /\ q' = ""
    /\ kind' = ""
    /\ applyFilters("", "", sort)
    /\ UNCHANGED <<genVars, FILES, sort, viewer, selected, fetches>>

\* clearBtn 'click' handler (build.js:376)
ClickClear ==
    /\ q' = ""
    /\ kind' = ""
    /\ sort' = "mtime-desc"
    /\ applyFilters("", "", "mtime-desc")
    /\ UNCHANGED <<genVars, FILES, viewer, selected, fetches>>

\* The document the browser loads was written by a run of main that ended
\* with exit code 0 over some directory.
ClientUniverse ==
    { Entry("B.txt", TRUE, 10, 3),
      Entry("a.png", TRUE, 2048, 2),
      Entry("b<i>.<p>", TRUE, 10, 1),
      Entry("x.constructor", TRUE, 1536, 2) }

PreviewUniverse ==
    { Entry("B.txt", TRUE, 10, 3),
      Entry("a.png", TRUE, 2048, 2),
      Entry("b<i>.<p>", TRUE, 10, 1) }

Scan(d) ==
    LET kept == SelectSeq(d, LAMBDA e : ~Skipped(e))
    IN  [i \in 1..Len(kept) |-> FileRecord(kept[i])]

\* main has run over a directory of at most n entries of U; the document is
\* loaded and the script has run to its end (build.js:221-379)
InitClient(U, n) ==
    /\ dir \in {s \in Listings(U, n) : DistinctNames(s)}
    /\ pc = "exited"
    /\ listed = TRUE
    /\ entries = dir
    /\ idx = Len(dir) + 1
    /\ files = sortArray(BuildOrder, Scan(dir))
    /\ vanished = {}
    /\ indexHtml = Document(dataJson(files))
    /\ writes = 1
    /\ stdout = Len(files)
    /\ stderr = NoValue
    /\ exitCode = 0
    /\ FILES = indexHtml.data
    /\ q = ""
    /\ kind = ""
    /\ sort = "mtime-desc"
    /\ grid = RenderGrid(FilteredSorted(FILES, q, kind, sort))
    /\ emptyHidden = (Len(grid) # 0)
    /\ viewer = <<Placeholder>>
    /\ selected = <<>>
    /\ fetches = {}

\* The events of the three controls and of the Limpar button.  They read and
\* write q, kind, sort and the grid only.
InitBrowse == InitClient(ClientUniverse, MaxRecords)

NextBrowse == InputQuery \/ ChangeKind \/ ChangeSort \/ ClickClear

SpecBrowse == InitBrowse /\ [][NextBrowse]_vars

\* All the events of the page, the preview pane and its fetches included.
InitPreview == InitClient(PreviewUniverse, MaxPreviewRecords)

NextPreview == InputQuery \/ ChangeKind \/ ChangeSort \/ ClickClear \/ ClickEmbed \/ FetchDone

SpecPreview == InitPreview /\ [][NextPreview]_vars

\* a finished successful run of main is a state the client specifications start from
GenEndsAsClientStarts ==
    (pc = "exited" /\ exitCode = 0) =>
        /\ files = sortArray(BuildOrder, Scan(dir))
        /\ indexHtml = Document(dataJson(files))
        /\ listed /\ entries = dir /\ idx = Len(dir) + 1 /\ vanished = {}
        /\ writes = 1 /\ stdout = Len(files) /\ stderr = NoValue

(***************************************************************************)
(* Claims about the generator, checked under SpecGen.                      *)
(***************************************************************************)
ExclusionSet == {"build.js", "serve.js", "index.html", ".DS_Store", "Thumbs.db"}

EligibleEntry(e) == e.isFile /\ e.name \notin ExclusionSet /\ CharAt(e.name, 1) # "."

RecordsNamed(data, n) == {k \in 1..Len(data) : data[k].name = n}

Succeeded == pc = "exited" /\ exitCode = 0

\* C1: the dataset embedded by a successful run has exactly one record for
\* each listed entry that is a regular file, is not in the exclusion set and
\* has no leading dot, and no record for any other entry.
C1_DatasetIsTheEligibleEntries ==
    Succeeded =>
        /\ indexHtml.status = "written"
        /\ \A i \in 1..Len(dir) :
              Cardinality(RecordsNamed(indexHtml.data, dir[i].name))
                  = IF EligibleEntry(dir[i]) THEN 1 ELSE 0
        /\ \A k \in 1..Len(indexHtml.data) :
              \E i \in 1..Len(dir) : dir[i].name = indexHtml.data[k].name

\* a successful run over a listing that has eligible and ineligible entries
C1_Witness ==
    /\ Succeeded
    /\ \E i, j \in 1..Len(dir) : EligibleEntry(dir[i]) /\ ~EligibleEntry(dir[j])
    /\ Len(indexHtml.data) >= 1

\* C2: when the stat of a listed file is rejected, only that entry is
\* dropped: the run ends with exit code 0, nothing on stderr, and index.html
\* written with the records of all the other eligible entries.
C2_VanishedEntryIsOnlyDropped ==
    (pc = "exited" /\ vanished # {}) =>
        /\ exitCode = 0
        /\ stderr = NoValue
        /\ indexHtml.status = "written"
        /\ \A i \in 1..Len(dir) :
              (EligibleEntry(dir[i]) /\ dir[i].name \notin vanished)
                  => Cardinality(RecordsNamed(indexHtml.data, dir[i].name)) = 1

\* C4: every record has a previewKind among the seven kinds, and an
\* extension that is no key of the mapping table gives link.
C4_ClassificationIsTotal ==
    \A i \in 1..Len(files) :
        /\ files[i].preview \in Kinds
        /\ files[i].ext \notin PreviewKeys => files[i].preview = "link"

\* C7: a run whose listing fails ends with index.html untouched, an error on
\* stderr and exit code 1; index.html is written at most once in a run, and
\* only when every listed entry has been through the loop.
C7_ListingFailureWritesNothing ==
    /\ (pc = "exited" /\ ~listed) =>
            /\ indexHtml = PriorContent
            /\ writes = 0
            /\ stderr # NoValue
            /\ exitCode = 1
    /\ writes <= 1
    /\ writes = 1 => (listed /\ entries = dir /\ idx > Len(entries))
    /\ indexHtml # PriorContent => writes = 1

\* the listing of a directory that has entries was refused
C7_Witness == pc = "exited" /\ ~listed /\ Len(dir) > 0

(***************************************************************************)
(* Claims about the controls, checked under SpecBrowse.                    *)
(***************************************************************************)
Shown == {grid[i].file : i \in 1..Len(grid)}

Embedded == {FILES[k] : k \in 1..Len(FILES)}

KindSelected(r) == kind = "" \/ r.preview = kind

ContainsTerm(r, term) ==
    term = "" \/ includes(toLowerCase(r.name), term) \/ includes(toLowerCase(r.ext), term)

\* C8 as stated: the visible set is the set of the embedded records whose
\* lower-cased name or extension contains the lower-cased query exactly as it
\* was typed, and whose kind is the selected one.
C8_QueryUsedAsTyped ==
    Shown = {r \in Embedded : ContainsTerm(r, toLowerCase(q)) /\ KindSelected(r)}

\* C8 as amended: the visible set is the set of the embedded records whose
\* lower-cased name or extension contains the lower-cased query with its
\* leading and trailing white space removed (a query that is empty after
\* that passes every record), and whose kind is the selected one; each of
\* them is shown once.
C8_QueryUsedTrimmed ==
    /\ Shown = {r \in Embedded : ContainsTerm(r, trim(toLowerCase(q))) /\ KindSelected(r)}
    /\ Len(grid) = Cardinality(Shown)

\* a query with white space around a term that selects some of the records
C8_Witness ==
    /\ q # trim(q)
    /\ trim(q) # ""
    /\ Shown # {}
    /\ Shown # Embedded

Reverse(s) == [i \in 1..Len(s) |-> s[Len(s) + 1 - i]]

SortKeys == {"size", "name", "mtime"}

KeyEqual(key, a, b) ==
    CASE key = "size" -> a.size = b.size
      [] key = "name" -> localeCompare(a.name, b.name) = 0
      [] key = "mtime" -> a.mtimeMs = b.mtimeMs

NoTies(key, cards) ==
    \A i, j \in 1..Len(cards) : i # j => ~KeyEqual(key, cards[i].file, cards[j].file)

\* C9: when the sort control goes from the descending to the ascending order
\* of a key, or back, with the query and the kind as they were, and no two of
\* the displayed records are equal under the key, the new display is the old
\* one reversed.
C9_DescendingIsAscendingReversed ==
    [][\A key \in SortKeys :
          ( /\ {sort, sort'} = {key \o "-desc", key \o "-asc"}
            /\ q' = q
            /\ kind' = kind
            /\ NoTies(key, grid) )
          => grid' = Reverse(grid)]_vars

\* an ascending display, chosen by the user, of three records without a tie
\* under the key
C9_Witness ==
    \E key \in SortKeys :
        /\ sort = key \o "-asc"
        /\ Len(grid) >= 3
        /\ NoTies(key, grid)

MtimeDescending(cards) ==
    \A i, j \in 1..Len(cards) : i < j => cards[i].file.mtimeMs >= cards[j].file.mtimeMs

\* C10: the page loads showing every embedded record, most recent first; a
\* click on the reset button leaves the query empty, the kind at all, the
\* sort at mtime-desc and that same display; no event changes FILES.
C10_ResetRestoresInitialView ==
    /\ (grid = RenderGrid(FILES) /\ MtimeDescending(grid))
    /\ [][ClickClear =>
            /\ q' = "" /\ kind' = "" /\ sort' = "mtime-desc"
            /\ grid' = RenderGrid(FILES)
            /\ MtimeDescending(grid')
            /\ emptyHidden' = (FILES # <<>>)]_vars
    /\ [][FILES' = FILES]_vars

\* a state with the three controls off their defaults and records hidden
C10_Witness ==
    /\ q # "" /\ kind # "" /\ sort # "mtime-desc"
    /\ Len(grid) < Len(FILES)
    /\ Len(FILES) >= 2
    /\ ENABLED ClickClear

(***************************************************************************)
(* Claims about the preview pane and the markup, checked under SpecPreview.*)
(***************************************************************************)
\* what the pane can hold when showInViewer(f) alone has acted on it
PaneOf(f) ==
    IF f.preview = "text"
    THEN {<<>>, <<PreNode(FileText(f.name))>>, <<PreNode(ErrorPage(f.name))>>, <<Unavailable>>}
    ELSE {<<ViewerNode(f)>>}

\* C3: whatever the interleaving of preview requests and fetch completions,
\* the pane holds only what the most recently requested record puts there.
C3_PaneShowsLatestRequestOnly ==
    selected # <<>> => viewer \in PaneOf(selected[1])

EscapedMetaMarkup(f) ==
    "<span class=\"chip\">" \o (IF f.ext # "" THEN escapeHtml(f.ext) ELSE "sem extensao")
        \o "</span>" \o Bullet \o humanSize(f.size) \o Bullet \o fmtDate(f.mtimeMs)

EscapedUnsupportedMarkup(f) ==
    "<div class=\"empty\">Tipo nao suportado para previa. <a class=\"btn\" href=\""
        \o escapeHtml(f.name) \o "\" target=\"_blank\" rel=\"noopener\">Abrir em nova aba</a></div>"

\* C5: the markup of every card and of the pane has the record's fields in
\* their escaped form.
C5_FieldsEscapedInMarkup ==
    /\ \A i \in 1..Len(grid) : grid[i].metaHTML = EscapedMetaMarkup(grid[i].file)
    /\ \A i \in 1..Len(viewer) :
          viewer[i].tag = "markup" =>
              viewer[i].html \in {Placeholder.html, Unavailable.html}
                                    \cup {EscapedUnsupportedMarkup(f) : f \in Embedded}

FetchFailures == {"http-404", "network-error", "body-error"}

\* C6: when the fetch of a text preview fails, by a 404 response, a network
\* error or an unreadable body, the pane is left with the "preview
\* unavailable" message alone, and the cards and the controls as they were.
C6_FailedFetchShowsOnlyTheMessage ==
    [][\A p \in fetches : \A outcome \in FetchFailures :
          FetchSettle(p, outcome) =>
              /\ viewer' = <<Unavailable>>
              /\ UNCHANGED <<grid, q, kind, sort>>]_vars

====
